---- MODULE Spec2Model ----
(***************************************************************************)
(* Model of backend/main.py, the Warehouse Verification API: a FastAPI     *)
(* service over one MySQL table `scans`, reached through a connection pool *)
(* of size 1.  Every request runs get_db_connection (the dependency) up to *)
(* its yield, then the endpoint, then the dependency's finally block.      *)
(* Time is counted in minutes since 00:00 UTC of day 0.                    *)
(***************************************************************************)
EXTENDS Integers, Sequences, FiniteSets, TLC

\* ---------------------------------------------------------------- bounds
NumThreads == 2      \* request-handling threads of the server's threadpool
MaxId      == 2      \* INSERT statements issued in a behaviour
MaxTicks   == 2      \* clock steps in a behaviour
StartNow   == 690    \* the clock at start: 11:30 UTC of day 0
TickStep   == 450    \* minutes the clock advances in one step
MaxStored  == 15     \* rows of a pre-filled table (SpecRecent)

Threads  == 1..NumThreads
\* the (barcode1, barcode2) payloads clients send
ScanInputs == {<<"A", "A">>, <<"A", "B">>, <<"", "A">>, <<"A", "">>}
Ops      == {"scan", "scans", "stats", "shifts"}
Outcomes == {"ok", "err", "lost"}   \* of one call into the MySQL connector

\* ------------------------------------------------------- program constants
\* a pool of two connections
PoolSizeTwo == 1 + 1

\* pool_size=1 of MySQLConnectionPool
PoolSize == 1

\* LIMIT 10 of get_scans
Limit == 10

\* INTERVAL 5 HOUR + INTERVAL 30 MINUTE
OffsetHours == 5
OffsetMinutes == 30

MinutesPerHour == 60
MinutesPerDay  == 24 * MinutesPerHour

VARIABLES
    cnx_pool,   \* [created, queue]: whether the pool exists, connections queued in it
    scans,      \* the committed rows of table scans, in commit order
    nextId,     \* the table's AUTO_INCREMENT counter
    now,        \* the database server's clock, NOW()
    ticks,      \* clock steps taken
    th          \* per thread: the request it serves, its locals and its response

vars == <<cnx_pool, scans, nextId, now, ticks, th>>

Min(a, b) == IF a <= b THEN a ELSE b

\* ------------------------------------------------------------- SQL helpers
\* created_at + INTERVAL 5 HOUR + INTERVAL 30 MINUTE
PlusOffset(ts) == ts + OffsetHours * MinutesPerHour + OffsetMinutes

\* HOUR(datetime)
HOUR(dt) == (dt % MinutesPerDay) \div MinutesPerHour

\* DATE(datetime), as the number of the day
DATE(dt) == dt \div MinutesPerDay

Shift1 == "Shift 1 (12 AM - 8 AM)"
Shift2 == "Shift 2 (8 AM - 4 PM)"
Shift3 == "Shift 3 (4 PM - 12 AM)"

\* the dict shift_names, in insertion order
shift_names == <<Shift1, Shift2, Shift3>>

Between(x, lo, hi) == lo <= x /\ x <= hi

\* the CASE with each upper limit one hour late
ShiftCaseOffByOne(created_at) ==
    IF Between(HOUR(PlusOffset(created_at)), 0, 8) THEN Shift1
    ELSE IF Between(HOUR(PlusOffset(created_at)), 9, 16) THEN Shift2
    ELSE Shift3

\* the CASE expression of the shift query
ShiftCase(created_at) ==
    IF Between(HOUR(PlusOffset(created_at)), 0, 7) THEN Shift1
    ELSE IF Between(HOUR(PlusOffset(created_at)), 8, 15) THEN Shift2
    ELSE Shift3

\* the WHERE clause with NOW() left unshifted
IsTodayUtcNow(created_at, clock) == DATE(PlusOffset(created_at)) = DATE(clock)

\* the query without its WHERE clause
IsTodayNoFilter(created_at, clock) == TRUE

\* the WHERE clause of the shift query
IsToday(created_at, clock) == DATE(PlusOffset(created_at)) = DATE(PlusOffset(clock))

\* SELECT COUNT(*) FROM scans
CountAll(rows) == Len(rows)

\* SELECT COUNT(*) FROM scans WHERE result = r
CountResult(rows, r) == Cardinality({i \in 1..Len(rows) : rows[i].result = r})

\* the shift query: one row (shift_name, scan_count) per non-empty group
ShiftQuery(rows, clock) ==
    LET today == {i \in 1..Len(rows) : IsToday(rows[i].created_at, clock)}
        names == {ShiftCase(rows[i].created_at) : i \in today}
    IN  {[shift_name |-> n,
          scan_count |-> Cardinality({i \in today : ShiftCase(rows[i].created_at) = n})]
         : n \in names}

\* the loop over results and the list comprehension of get_shift_stats
FormatShifts(results) ==
    [k \in 1..Len(shift_names) |->
        [shift_name |-> shift_names[k],
         scan_count |->
            IF \E r \in results : r.shift_name = shift_names[k]
            THEN (CHOOSE r \in results : r.shift_name = shift_names[k]).scan_count
            ELSE 0]]

\* ORDER BY created_at ASC
ComesFirstAsc(r, q, tie) ==
    \/ r.created_at < q.created_at
    \/ r.created_at = q.created_at /\ (IF tie = "id_asc" THEN r.id < q.id ELSE r.id > q.id)

\* ORDER BY created_at DESC; the engine is free to order equal timestamps
\* either way, tie says which
ComesFirst(r, q, tie) ==
    \/ r.created_at > q.created_at
    \/ r.created_at = q.created_at /\ (IF tie = "id_asc" THEN r.id < q.id ELSE r.id > q.id)

OrderBy(rows, tie) ==
    LET S == {rows[i] : i \in 1..Len(rows)}
    IN  [k \in 1..Len(rows) |->
            CHOOSE r \in S : Cardinality({q \in S : ComesFirst(q, r, tie)}) = k - 1]

\* SELECT ... ORDER BY created_at DESC LIMIT 10
RecentQuery(rows, tie) == SubSeq(OrderBy(rows, tie), 1, Min(Limit, Len(rows)))

\* ------------------------------------------------------------ thread state
Idle ==
    [op |-> "none", pc |-> "idle", barcode1 |-> "", barcode2 |-> "",
     conn |-> FALSE, connected |-> FALSE,
     result |-> 0, result_text |-> "", rowid |-> 0, row_at |-> 0, open |-> FALSE,
     total_scans |-> 0, total_passed |-> 0, total_failed |-> 0,
     qnow |-> 0, qlen |-> 0, status |-> 0, body |-> <<>>]

\* connections borrowed from the pool and not yet given back
Borrowed == Cardinality({t \in Threads : th[t].conn})

Init ==
    /\ cnx_pool \in {[created |-> TRUE, queue |-> PoolSize],
                     [created |-> FALSE, queue |-> 0]}
    /\ scans = <<>>
    /\ nextId = 1
    /\ now = StartNow
    /\ ticks = 0
    /\ th = [t \in Threads |-> Idle]

\* ------------------------------------------------- get_db_connection, entry
EntryPc(op) ==
    CASE op = "scan"   -> "validate"
      [] op = "scans"  -> "select"
      [] op = "stats"  -> "count_total"
      [] op = "shifts" -> "shift_query"

\* A request arrives and the dependency runs up to its yield.  pool is None:
\* 503 before the try.  get_connection raises (queue empty, or the queued
\* connection cannot be re-established): 503, conn never bound.
get_db_connection(t, op, b1, b2, reachable) ==
    /\ th[t].pc = "idle"
    /\ (op = "scan" /\ b1 # "" /\ b2 # "") => nextId <= MaxId
    /\ LET req == [Idle EXCEPT !.op = op,
                               !.barcode1 = IF op = "scan" THEN b1 ELSE "",
                               !.barcode2 = IF op = "scan" THEN b2 ELSE ""]
       IN  IF ~cnx_pool.created \/ cnx_pool.queue = 0 \/ ~reachable
           THEN /\ th' = [th EXCEPT ![t] = [req EXCEPT !.pc = "done", !.status = 503]]
                /\ UNCHANGED cnx_pool
           ELSE /\ th' = [th EXCEPT ![t] = [req EXCEPT !.pc = EntryPc(op),
                                                       !.conn = TRUE,
                                                       !.connected = TRUE]]
                /\ cnx_pool' = [cnx_pool EXCEPT !.queue = @ - 1]
    /\ UNCHANGED <<scans, nextId, now, ticks>>

\* the finally block of the dependency: conn.close() gives the connection
\* back to the pool, and only runs when conn.is_connected()
release(t, alive) ==
    /\ th[t].pc = "finally"
    /\ IF th[t].conn /\ th[t].connected /\ alive
       THEN cnx_pool' = [cnx_pool EXCEPT !.queue = @ + 1]
       ELSE UNCHANGED cnx_pool
    /\ th' = [th EXCEPT ![t] = [Idle EXCEPT !.pc = "done", !.op = th[t].op,
                                            !.barcode1 = th[t].barcode1,
                                            !.barcode2 = th[t].barcode2,
                                            !.rowid = th[t].rowid,
                                            !.qnow = th[t].qnow, !.qlen = th[t].qlen,
                                            !.status = th[t].status,
                                            !.body = th[t].body]]
    /\ UNCHANGED <<scans, nextId, now, ticks>>

\* the response has been sent; the thread is free again
respond(t) ==
    /\ th[t].pc = "done"
    /\ th' = [th EXCEPT ![t] = Idle]
    /\ UNCHANGED <<cnx_pool, scans, nextId, now, ticks>>

\* --------------------------------------------------------------- create_scan
\* the emptiness check, the comparison and the label
create_scan_validate(t) ==
    /\ th[t].pc = "validate"
    /\ IF th[t].barcode1 = "" \/ th[t].barcode2 = ""
       THEN th' = [th EXCEPT ![t] = [@ EXCEPT !.pc = "finally", !.status = 400]]
       ELSE th' = [th EXCEPT ![t] =
                    [@ EXCEPT !.pc = "cursor",
                              !.result = IF th[t].barcode1 = th[t].barcode2 THEN 1 ELSE 0,
                              !.result_text = "Match"]]
    /\ UNCHANGED <<cnx_pool, scans, nextId, now, ticks>>

\* cursor = db.cursor()
create_scan_cursor(t, outcome) ==
    /\ th[t].pc = "cursor"
    /\ th' = [th EXCEPT ![t] =
                [@ EXCEPT !.pc = IF outcome = "ok" THEN "execute" ELSE "rollback",
                          !.connected = (outcome # "lost")]]
    /\ UNCHANGED <<cnx_pool, scans, nextId, now, ticks>>

\* cursor.execute(INSERT ...): the row gets its id and created_at and waits,
\* uncommitted, in the connection's transaction
create_scan_execute(t, outcome) ==
    /\ th[t].pc = "execute"
    /\ IF outcome = "ok"
       THEN /\ th' = [th EXCEPT ![t] = [@ EXCEPT !.pc = "commit", !.rowid = nextId,
                                                 !.row_at = now, !.open = TRUE]]
            /\ nextId' = nextId + 1
       ELSE /\ th' = [th EXCEPT ![t] = [@ EXCEPT !.pc = "rollback",
                                                 !.connected = (outcome # "lost")]]
            /\ UNCHANGED nextId
    /\ UNCHANGED <<cnx_pool, scans, now, ticks>>

\* db.commit(): the row becomes visible, or the commit fails and it does not
\* (a connection lost here loses the transaction with it)
create_scan_commit(t, outcome) ==
    /\ th[t].pc = "commit"
    /\ IF outcome = "ok"
       THEN /\ scans' = Append(scans, [id |-> th[t].rowid,
                                       barcode1 |-> th[t].barcode1,
                                       barcode2 |-> th[t].barcode2,
                                       result |-> th[t].result,
                                       created_at |-> th[t].row_at])
            /\ th' = [th EXCEPT ![t] = [@ EXCEPT !.pc = "close", !.open = FALSE]]
       ELSE /\ th' = [th EXCEPT ![t] = [@ EXCEPT !.pc = "rollback",
                                                 !.connected = (outcome # "lost"),
                                                 !.open = (outcome # "lost")]]
            /\ UNCHANGED scans
    /\ UNCHANGED <<cnx_pool, nextId, now, ticks>>

\* cursor.close(), still inside the try, then the return
create_scan_close(t, outcome) ==
    /\ th[t].pc = "close"
    /\ IF outcome = "ok"
       THEN th' = [th EXCEPT ![t] =
                    [@ EXCEPT !.pc = "finally", !.status = 200,
                              !.body = [status |-> "success",
                                        result |-> th[t].result_text]]]
       ELSE th' = [th EXCEPT ![t] = [@ EXCEPT !.pc = "rollback",
                                              !.connected = (outcome # "lost")]]
    /\ UNCHANGED <<cnx_pool, scans, nextId, now, ticks>>

\* the except block: db.rollback(), then 500.  On a lost connection rollback
\* raises in its turn; that error leaves the endpoint, is thrown into the
\* dependency at its yield and caught by its except, which answers 503.
create_scan_rollback(t) ==
    /\ th[t].pc = "rollback"
    /\ th' = [th EXCEPT ![t] =
                [@ EXCEPT !.pc = "finally", !.open = FALSE,
                          !.status = IF th[t].connected THEN 500 ELSE 503]]
    /\ UNCHANGED <<cnx_pool, scans, nextId, now, ticks>>

\* ----------------------------------------------------------------- get_scans
get_scans(t, outcome, tie) ==
    /\ th[t].pc = "select"
    /\ IF outcome = "ok"
       THEN th' = [th EXCEPT ![t] =
                    [@ EXCEPT !.pc = "finally", !.status = 200,
                              !.qlen = Len(scans), !.qnow = now,
                              !.body = RecentQuery(scans, tie)]]
       ELSE th' = [th EXCEPT ![t] = [@ EXCEPT !.pc = "finally", !.status = 500,
                                              !.connected = (outcome # "lost")]]
    /\ UNCHANGED <<cnx_pool, scans, nextId, now, ticks>>

\* ----------------------------------------------------------------- get_stats
\* a failed query of a read endpoint: 500
QueryFailed(t, outcome) ==
    th' = [th EXCEPT ![t] = [@ EXCEPT !.pc = "finally", !.status = 500,
                                      !.connected = (outcome # "lost")]]

\* SELECT COUNT(*) as total FROM scans
get_stats_total(t, outcome) ==
    /\ th[t].pc = "count_total"
    /\ IF outcome = "ok"
       THEN th' = [th EXCEPT ![t] = [@ EXCEPT !.pc = "count_passed",
                                              !.qlen = Len(scans), !.qnow = now,
                                              !.total_scans = CountAll(scans)]]
       ELSE QueryFailed(t, outcome)
    /\ UNCHANGED <<cnx_pool, scans, nextId, now, ticks>>

\* SELECT COUNT(*) as total FROM scans WHERE result = 1
get_stats_passed(t, outcome) ==
    /\ th[t].pc = "count_passed"
    /\ IF outcome = "ok"
       THEN th' = [th EXCEPT ![t] = [@ EXCEPT !.pc = "count_failed",
                                              !.total_passed = CountResult(scans, 1)]]
       ELSE QueryFailed(t, outcome)
    /\ UNCHANGED <<cnx_pool, scans, nextId, now, ticks>>

\* SELECT COUNT(*) as total FROM scans WHERE result = 0, and the return
get_stats_failed(t, outcome) ==
    /\ th[t].pc = "count_failed"
    /\ IF outcome = "ok"
       THEN LET failed == CountResult(scans, 0)
            IN  th' = [th EXCEPT ![t] =
                        [@ EXCEPT !.pc = "finally", !.status = 200,
                                  !.total_failed = failed,
                                  !.body = [total_scans |-> th[t].total_scans,
                                            total_passed |-> th[t].total_passed,
                                            total_failed |-> failed]]]
       ELSE QueryFailed(t, outcome)
    /\ UNCHANGED <<cnx_pool, scans, nextId, now, ticks>>

\* ----------------------------------------------------------- get_shift_stats
get_shift_stats(t, outcome) ==
    /\ th[t].pc = "shift_query"
    /\ IF outcome = "ok"
       THEN th' = [th EXCEPT ![t] =
                    [@ EXCEPT !.pc = "finally", !.status = 200,
                              !.qlen = Len(scans), !.qnow = now,
                              !.body = [shifts |-> FormatShifts(ShiftQuery(scans, now))]]]
       ELSE QueryFailed(t, outcome)
    /\ UNCHANGED <<cnx_pool, scans, nextId, now, ticks>>

\* --------------------------------------------------------------- the clock
Tick ==
    /\ ticks < MaxTicks
    /\ ticks' = ticks + 1
    /\ now' = now + TickStep
    /\ UNCHANGED <<cnx_pool, scans, nextId, th>>

Next ==
    \/ \E t \in Threads, op \in Ops, b \in ScanInputs, reachable \in BOOLEAN :
            get_db_connection(t, op, b[1], b[2], reachable)
    \/ \E t \in Threads, alive \in BOOLEAN : release(t, alive)
    \/ \E t \in Threads : respond(t)
    \/ \E t \in Threads : create_scan_validate(t)
    \/ \E t \in Threads, outcome \in Outcomes : create_scan_cursor(t, outcome)
    \/ \E t \in Threads, outcome \in Outcomes : create_scan_execute(t, outcome)
    \/ \E t \in Threads, outcome \in Outcomes : create_scan_commit(t, outcome)
    \/ \E t \in Threads, outcome \in Outcomes : create_scan_close(t, outcome)
    \/ \E t \in Threads : create_scan_rollback(t)
    \/ \E t \in Threads, outcome \in Outcomes, tie \in {"id_asc", "id_desc"} :
            get_scans(t, outcome, tie)
    \/ \E t \in Threads, outcome \in Outcomes : get_stats_total(t, outcome)
    \/ \E t \in Threads, outcome \in Outcomes : get_stats_passed(t, outcome)
    \/ \E t \in Threads, outcome \in Outcomes : get_stats_failed(t, outcome)
    \/ \E t \in Threads, outcome \in Outcomes : get_shift_stats(t, outcome)
    \/ Tick

Spec == Init /\ [][Next]_vars

\* ------------------------------------------- a table that is already filled
\* the table after k[0] successful scans made at the first instant of the
\* clock and k[1] made at the second, alternately of equal and of different
\* barcodes
Instants == {0, 1}

Filled(k) ==
    [i \in 1..(k[0] + k[1]) |->
        [id |-> i, barcode1 |-> "A",
         barcode2 |-> IF i % 2 = 1 THEN "A" ELSE "B",
         result |-> IF i % 2 = 1 THEN 1 ELSE 0,
         created_at |-> IF i <= k[0] THEN StartNow ELSE StartNow + TickStep]]

InitRecent ==
    /\ cnx_pool = [created |-> TRUE, queue |-> PoolSize]
    /\ \E k \in [Instants -> 0..MaxStored] :
            /\ k[0] + k[1] <= MaxStored
            /\ scans = Filled(k)
    /\ nextId = Len(scans) + 1
    /\ ticks = MaxTicks
    /\ now = StartNow + MaxTicks * TickStep
    /\ th = [t \in Threads |-> Idle]

NextRecent ==
    \/ \E t \in Threads, reachable \in BOOLEAN :
            get_db_connection(t, "scans", "", "", reachable)
    \/ \E t \in Threads, outcome \in Outcomes, tie \in {"id_asc", "id_desc"} :
            get_scans(t, outcome, tie)
    \/ \E t \in Threads, alive \in BOOLEAN : release(t, alive)
    \/ \E t \in Threads : respond(t)

SpecRecent == InitRecent /\ [][NextRecent]_vars

\* ================================================================ properties
\* thread t holds the response of a request of kind op
Done(t, op) == th[t].pc = "done" /\ th[t].op = op
Ok(t, op) == Done(t, op) /\ th[t].status = 200

\* the table as the query of thread t saw it
Seen(t) == SubSeq(scans, 1, th[t].qlen)

\* the row thread t's INSERT created is in the table
Committed(t) == \E i \in 1..Len(scans) : scans[i].id = th[t].rowid

\* C1: a successful submit scan with two non-empty barcodes answers "Match"
\* if and only if the barcodes are equal, and "No Match" when they differ.
C1_LabelIffEqual ==
    \A t \in Threads :
        (Ok(t, "scan") /\ th[t].barcode1 # "" /\ th[t].barcode2 # "") =>
            /\ (th[t].body.result = "Match") <=> (th[t].barcode1 = th[t].barcode2)
            /\ (th[t].barcode1 # th[t].barcode2) => th[t].body.result = "No Match"

\* C2: a submit scan with an empty barcode is answered 400, whatever the
\* state of the table and of the pool, and no INSERT was issued for it.
C2_EmptyBarcodeIs400 ==
    \A t \in Threads :
        (Done(t, "scan") /\ (th[t].barcode1 = "" \/ th[t].barcode2 = "")) =>
            /\ th[t].status = 400
            /\ th[t].rowid = 0

\* C3: the commit of a submit scan raises the total by one and raises passed
\* when the label the request returns is "Match", failed when it is
\* "No Match", leaving the other count alone.
C3_CountsFollowReturnedLabel ==
    [][\A t \in Threads :
        (th[t].pc = "commit" /\ th'[t].pc = "close") =>
            /\ CountAll(scans') = CountAll(scans) + 1
            /\ (th[t].result_text = "Match") =>
                    /\ CountResult(scans', 1) = CountResult(scans, 1) + 1
                    /\ CountResult(scans', 0) = CountResult(scans, 0)
            /\ (th[t].result_text # "Match") =>
                    /\ CountResult(scans', 0) = CountResult(scans, 0) + 1
                    /\ CountResult(scans', 1) = CountResult(scans, 1)]_vars

C5_FailureLeavesNoRow ==
    \A t \in Threads :
        (Done(t, "scan") /\ th[t].barcode1 # "" /\ th[t].barcode2 # "") =>
            /\ (th[t].status = 200) => Committed(t)
            /\ (th[t].status # 200) => ~Committed(t)

\* C6: every connection of the pool is either queued in the pool or held by
\* a request in progress, so that with no request in progress the pool holds
\* its connection again.
C6_ConnectionGivenBack ==
    cnx_pool.created => cnx_pool.queue + Borrowed = PoolSize

\* C7 as stated: two answers of get_stats, or two of get_shift_stats, computed
\* on the same table (no write committed in between) are identical, at
\* whatever instants the two calls were made.
C7_RepeatedCallsIdentical ==
    \A t, u \in Threads :
        \A op \in {"stats", "shifts"} :
            (Ok(t, op) /\ Ok(u, op) /\ th[t].qlen = th[u].qlen) =>
                th[t].body = th[u].body

\* C7 amended: two answers of get_stats computed on the same table are
\* identical; two answers of get_shift_stats computed on the same table are
\* identical when the two calls fall on the same UTC+5:30 calendar date.
C7_RepeatedCallsIdenticalSameDate ==
    \A t, u \in Threads :
        /\ (Ok(t, "stats") /\ Ok(u, "stats") /\ th[t].qlen = th[u].qlen) =>
                th[t].body = th[u].body
        /\ (/\ Ok(t, "shifts") /\ Ok(u, "shifts") /\ th[t].qlen = th[u].qlen
            /\ (th[t].qnow + 330) \div 1440 = (th[u].qnow + 330) \div 1440) =>
                th[t].body = th[u].body

C7_Witness ==
    \E t, u \in Threads :
        /\ Ok(t, "shifts") /\ Ok(u, "shifts")
        /\ th[t].qlen = th[u].qlen
        /\ th[t].qnow # th[u].qnow
        /\ (th[t].qnow + 330) \div 1440 = (th[u].qnow + 330) \div 1440
        /\ th[t].body.shifts[1].scan_count >= 1

\* C8: get_shift_stats answers exactly the three buckets Shift 1, Shift 2,
\* Shift 3, and their counts add up to the number of rows whose UTC+5:30
\* date is the UTC+5:30 date of the call.
C8_ThreeBucketsSumToToday ==
    \A t \in Threads :
        Ok(t, "shifts") =>
            LET b == th[t].body.shifts
                today == {i \in 1..th[t].qlen :
                            (scans[i].created_at + 330) \div 1440
                                = (th[t].qnow + 330) \div 1440}
            IN  /\ Len(b) = 3
                /\ <<b[1].shift_name, b[2].shift_name, b[3].shift_name>>
                        = <<Shift1, Shift2, Shift3>>
                /\ b[1].scan_count + b[2].scan_count + b[3].scan_count
                        = Cardinality(today)

C8_Witness ==
    \E t \in Threads :
        /\ Ok(t, "shifts")
        /\ th[t].qlen >= 2
        /\ LET b == th[t].body.shifts
               sum == b[1].scan_count + b[2].scan_count + b[3].scan_count
           IN  0 < sum /\ sum < th[t].qlen

\* C9: get_scans answers min(10, rows) rows, newest first by created_at, and
\* no row left out is newer than a row answered.
C9_RecentAreNewest ==
    \A t \in Threads :
        Ok(t, "scans") =>
            LET b == th[t].body
                all == {Seen(t)[i] : i \in 1..th[t].qlen}
                got == {b[i] : i \in 1..Len(b)}
            IN  /\ Len(b) = Min(10, th[t].qlen)
                /\ got \subseteq all
                /\ Cardinality(got) = Len(b)
                /\ \A i, j \in 1..Len(b) :
                        i < j => b[i].created_at >= b[j].created_at
                /\ \A r \in all \ got : \A q \in got : r.created_at <= q.created_at

C9_Witness ==
    \E t \in Threads :
        /\ Ok(t, "scans")
        /\ th[t].qlen >= 15
        /\ Len(th[t].body) = 10
        /\ th[t].body[1].created_at > th[t].body[10].created_at
        /\ \E i \in 1..th[t].qlen : scans[i].created_at = th[t].body[10].created_at
                                    /\ \A j \in 1..10 : th[t].body[j] # scans[i]

\* C10: in UTC terms, a row counts when its UTC+5:30 date is that of the
\* call; Shift 1 takes the rows made from 18:30 UTC (they belong to the next
\* date) up to 02:30 UTC, Shift 2 those from 02:30 to 10:30 UTC, Shift 3
\* those from 10:30 to 18:30 UTC.
UtcMinute(ts) == ts % (24 * 60)
UtcDay(ts) == ts \div (24 * 60)
RollsOver(ts) == UtcMinute(ts) >= 18 * 60 + 30
IstDay(ts) == IF RollsOver(ts) THEN UtcDay(ts) + 1 ELSE UtcDay(ts)
IstShift(ts) ==
    IF RollsOver(ts) \/ UtcMinute(ts) < 2 * 60 + 30 THEN 1
    ELSE IF UtcMinute(ts) < 10 * 60 + 30 THEN 2
    ELSE 3

C10_BucketsByShiftedTime ==
    \A t \in Threads :
        Ok(t, "shifts") =>
            \A k \in 1..3 :
                th[t].body.shifts[k].scan_count =
                    Cardinality({i \in 1..th[t].qlen :
                                    /\ IstDay(scans[i].created_at) = IstDay(th[t].qnow)
                                    /\ IstShift(scans[i].created_at) = k})

C10_Witness ==
    \E t \in Threads :
        /\ Ok(t, "shifts")
        /\ th[t].body.shifts[1].scan_count >= 1
        /\ \E i \in 1..th[t].qlen :
                /\ RollsOver(scans[i].created_at)
                /\ UtcDay(th[t].qnow) = UtcDay(scans[i].created_at) + 1
        /\ \E i \in 1..th[t].qlen :
                /\ ~RollsOver(scans[i].created_at)
                /\ UtcDay(th[t].qnow) = UtcDay(scans[i].created_at) + 1

====
